---- MODULE Spec2Model ----
(***************************************************************************)
(* A model of the station / climate pipeline of this repository:           *)
(*   Code.py  - station inventory with derived state abbreviations, the    *)
(*              climate extract and their left merge;                      *)
(*   Main.py  - station inventory with reverse-geocoding fallback, full    *)
(*              state names, climate load and merge;                       *)
(*   the Dual-Source Reconciler and the Region Backfill, as spec.md 4.4    *)
(*   and 4.6 describe them.                                                *)
(*                                                                         *)
(* Text is a sequence of one-character strings.  A missing cell (pandas    *)
(* NaN) is the one-element sequence NaN, which no text equals.             *)
(***************************************************************************)
EXTENDS Integers, Sequences, FiniteSets, TLC

VARIABLES
    script,          \* which program runs: "Code.py", "Main.py", "core"
    pc,              \* position of the script
    stationFile,     \* ghcnd-stations.txt as found on disk
    climateFile,     \* Climate data.csv as found on disk
    df_stations,     \* the script's global df_stations
    df_climate,      \* the script's global df_climate
    df_merged,       \* the script's global df_merged
    state_abbr_list, \* Code.py: the local list built by load_station_inventory
    errors,          \* the st.error messages shown so far
    geocoded,        \* Main.py: per station row, the outcome of the geocode call made for it
    abortLine,       \* line of the unhandled exception that ended the run, 0 if none
    src1,            \* Reconciler: first aggregator output
    src2,            \* Reconciler: second aggregator output
    threshold,       \* Reconciler: relative-difference threshold <<num, den>>
    merged12,        \* Reconciler: reconcile(src1, src2)
    merged21,        \* Reconciler: reconcile(src2, src1)
    compiled,        \* Region Backfill: the compiled table before backfill
    backfilled       \* Region Backfill: the table after backfill

vars == <<script, pc, stationFile, climateFile, df_stations, df_climate, df_merged,
          state_abbr_list, errors, geocoded, abortLine,
          src1, src2, threshold, merged12, merged21, compiled, backfilled>>

pipeVars == <<stationFile, climateFile, df_stations, df_climate, df_merged,
              state_abbr_list, errors, geocoded, abortLine>>

coreVars == <<src1, src2, threshold, merged12, merged21, compiled, backfilled>>

----------------------------------------------------------------------------
(* Bounds of the model *)

MaxIdLen == 5
MaxStations == 2
MaxObs == 1
MaxValue == 11
MaxMemberValue == 2
MaxTotal == 2

----------------------------------------------------------------------------
(* Python and pandas values *)

NaN == <<"NaN">>
Unbound == [kind |-> "Unbound", columns |-> {}, rows |-> <<>>]
None == [kind |-> "None", columns |-> {}, rows |-> <<>>]
DataFrame(columns, rows) == [kind |-> "DataFrame", columns |-> columns, rows |-> rows]

Letters == {"U", "S", "A", "Z", "a", "z"}
DigitChars == {"7"}
FwfDelimiters == {" ", "\t", "\r", "\n"}
PyWhitespace == FwfDelimiters \cup {"\f"}

isalpha(char) == char \in Letters

Min(a, b) == IF a <= b THEN a ELSE b

RECURSIVE LStrip(_, _)
LStrip(s, ws) == IF s = <<>> \/ Head(s) \notin ws THEN s ELSE LStrip(Tail(s), ws)

RECURSIVE RStrip(_, _)
RStrip(s, ws) ==
    IF s = <<>> \/ s[Len(s)] \notin ws THEN s ELSE RStrip(SubSeq(s, 1, Len(s) - 1), ws)

Strip(s, ws) == RStrip(LStrip(s, ws), ws)

Slice(s, from) == SubSeq(s, from + 1, Len(s))

startswith(s, prefix) ==
    /\ Len(s) >= Len(prefix)
    /\ SubSeq(s, 1, Len(prefix)) = prefix

IsNumeric(s) == s # <<>> /\ \A i \in 1..Len(s) : s[i] \in DigitChars

----------------------------------------------------------------------------
(* pandas.read_fwf: each field is the line's slice stripped of the          *)
(* delimiters, an empty field is NaN, a line whose fields are all empty is  *)
(* dropped, and a column whose values all parse as numbers is numeric.      *)

ReadFwfField(raw) ==
    LET f == Strip(raw, FwfDelimiters) IN IF f = <<>> THEN NaN ELSE f

FwfRow(line) == [ID |-> ReadFwfField(line.ID), State |-> ReadFwfField(line.State)]

FwfBlank(line, names) == \A c \in names : FwfRow(line)[c] = NaN

read_fwf(file, names) ==
    LET kept == SelectSeq(file.lines, LAMBDA line : ~FwfBlank(line, names))
    IN  [i \in 1..Len(kept) |-> FwfRow(kept[i])]

\* A column pandas does not hold as text: every value numeric, or every value NaN.
NotTextColumn(values) ==
    /\ values # <<>>
    /\ \/ \A i \in 1..Len(values) : values[i] = NaN
       \/ \A i \in 1..Len(values) : values[i] # NaN /\ IsNumeric(values[i])

Column(rows, c) == [i \in 1..Len(rows) |-> rows[i][c]]

----------------------------------------------------------------------------
(* pandas.merge(left, right, left_on="STATION", right_on="ID", how="left"):  *)
(* left rows in order, each paired with every right row of equal key, or    *)
(* kept once with null right columns.                                       *)

KeyEq(a, b) == a = b

NullRight == [ID |-> NaN, Geo |-> NaN]

Paired(l, r) == [STATION |-> l.STATION, DATE |-> l.DATE, ID |-> r.ID, Geo |-> r.Geo]

MatchesOf(l, right) == SelectSeq(right, LAMBDA r : KeyEq(l.STATION, r.ID))

\* how="inner": an unmatched left row is dropped.
JoinLeftRowInner(l, right) ==
    LET m == MatchesOf(l, right) IN [i \in 1..Len(m) |-> Paired(l, m[i])]

\* how="left"
JoinLeftRow(l, right) ==
    LET m == MatchesOf(l, right)
    IN  IF m = <<>> THEN <<Paired(l, NullRight)>>
        ELSE [i \in 1..Len(m) |-> Paired(l, m[i])]

RECURSIVE merge_left(_, _)
merge_left(left, right) ==
    IF left = <<>> THEN <<>>
    ELSE JoinLeftRow(Head(left), right) \o merge_left(Tail(left), right)

----------------------------------------------------------------------------
(* Code.py *)

\* The scan without the slice [2:]: letters of the country prefix are taken.
state_abbr_from_start(station_code) ==
    LET letters == SelectSeq(station_code, isalpha)
    IN  SubSeq(letters, 1, Min(2, Len(letters)))

\* line 17: ''.join([char for char in station_code[2:] if char.isalpha()][:2])
state_abbr(station_code) ==
    LET letters == SelectSeq(Slice(station_code, 2), isalpha)
    IN  SubSeq(letters, 1, Min(2, Len(letters)))

\* The table without the filter of line 26.
keep_all(rows) == rows

\* line 26: df_stations[df_stations["ID"].str.startswith("US")]
filter_US(rows) == SelectSeq(rows, LAMBDA r : startswith(r.ID, <<"U", "S">>))

Failed == [ret |-> None, err |-> TRUE, abbrs |-> <<>>]

\* load_station_inventory answering an unreadable file with an empty table
\* and no error.
Code_load_empty_when_unreadable(file) ==
    IF file.kind = "unreadable"
    THEN [ret |-> DataFrame({"ID", "State_Abbr"}, <<>>), err |-> FALSE, abbrs |-> <<>>]
    ELSE LET ids == Column(read_fwf(file, {"ID"}), "ID")
         IN  IF NotTextColumn(ids) THEN Failed
             ELSE LET abbrs == [i \in 1..Len(ids) |-> state_abbr(ids[i])]
                      table == [i \in 1..Len(ids) |->
                                   [ID |-> ids[i], State_Abbr |-> abbrs[i]]]
                  IN  [ret |-> DataFrame({"ID", "State_Abbr"}, filter_US(table)),
                       err |-> FALSE, abbrs |-> abbrs]

\* lines 5-33.  The column is numeric when every ID parses as a number, and
\* station_code[2:] then raises TypeError, which the except clause catches.
Code_load_station_inventory(file) ==
    IF file.kind = "unreadable" THEN Failed
    ELSE LET ids == Column(read_fwf(file, {"ID"}), "ID")
         IN  IF NotTextColumn(ids) THEN Failed
             ELSE LET abbrs == [i \in 1..Len(ids) |-> state_abbr(ids[i])]
                      table == [i \in 1..Len(ids) |->
                                   [ID |-> ids[i], State_Abbr |-> abbrs[i]]]
                  IN  [ret |-> DataFrame({"ID", "State_Abbr"}, filter_US(table)),
                       err |-> FALSE, abbrs |-> abbrs]

\* lines 56-69: df[["STATION", "DATE", "PRCP", "TAVG"]] raises KeyError on a
\* missing column, which the except clause catches.
Code_load_climate_data(file) ==
    IF file.kind = "unreadable" \/ ~({"STATION", "DATE"} \subseteq file.columns)
    THEN [ret |-> None, err |-> TRUE]
    ELSE [ret |-> DataFrame({"STATION", "DATE"}, file.rows), err |-> FALSE]

\* lines 108-111: merge on STATION = ID, then drop the ID column.
Code_merge(climate, stations) ==
    LET right == [i \in 1..Len(stations) |->
                     [ID |-> stations[i].ID, Geo |-> stations[i].State_Abbr]]
        m == merge_left(climate, right)
    IN  [i \in 1..Len(m) |->
            [STATION |-> m[i].STATION, DATE |-> m[i].DATE, State_Abbr |-> m[i].Geo]]

Code_LoadStations(at, next) ==
    /\ script = "Code.py" /\ pc = at
    /\ LET r == Code_load_station_inventory(stationFile)
       IN  /\ df_stations' = r.ret
           /\ state_abbr_list' = r.abbrs
           /\ errors' = IF r.err THEN errors \cup {"station inventory"} ELSE errors
    /\ pc' = next
    /\ UNCHANGED <<script, stationFile, climateFile, df_climate, df_merged,
                   geocoded, abortLine, coreVars>>

Code_LoadClimate(at, next) ==
    /\ script = "Code.py" /\ pc = at
    /\ LET r == Code_load_climate_data(climateFile)
       IN  /\ df_climate' = r.ret
           /\ errors' = IF r.err THEN errors \cup {"climate data"} ELSE errors
    /\ pc' = next
    /\ UNCHANGED <<script, stationFile, climateFile, df_stations, df_merged,
                   state_abbr_list, geocoded, abortLine, coreVars>>

Code_l46 == Code_LoadStations("l46", "l81")
Code_l81 == Code_LoadClimate("l81", "l103")
Code_l103 == Code_LoadStations("l103", "l104")
Code_l104 == Code_LoadClimate("l104", "l106")

\* lines 106-118
Code_l106 ==
    /\ script = "Code.py" /\ pc = "l106"
    /\ df_merged' = IF df_stations # None /\ df_climate # None
                    THEN DataFrame({"STATION", "DATE", "State_Abbr"},
                                   Code_merge(df_climate.rows, df_stations.rows))
                    ELSE df_merged
    /\ pc' = "done"
    /\ UNCHANGED <<script, stationFile, climateFile, df_stations, df_climate,
                   state_abbr_list, errors, geocoded, abortLine, coreVars>>

----------------------------------------------------------------------------
(* Main.py *)

Arizona == <<"A", "r", "i", "z", "o", "n", "a">>

\* The code -> name table of the us package, held for the codes of the model.
USStates == {[abbr |-> <<"A", "Z">>, name |-> Arizona]}

upper(s) ==
    [i \in 1..Len(s) |-> CASE s[i] = "a" -> "A" [] s[i] = "z" -> "Z" [] OTHER -> s[i]]

\* us.states.lookup(val): a two-letter value is matched, upper-cased, against
\* the abbreviations; any other value against the names.
us_states_lookup(val) ==
    IF Len(val) = 2 /\ \A i \in 1..2 : isalpha(val[i])
    THEN {st \in USStates : st.abbr = upper(val)}
    ELSE {st \in USStates : upper(st.name) = upper(val)}

\* Python truth of a cell: the empty string is false, NaN and any text are true.
Truthy(v) == v # <<>>

str_strip(v) == IF v = NaN THEN NaN ELSE Strip(v, PyWhitespace)

\* lines 31-42.  raised is the line of the exception that leaves the function:
\* the file cannot be read (33), or a column is not text and has no .str (35, 37).
Main_load_station_inventory(file) ==
    IF file.kind = "unreadable" THEN [ret |-> Unbound, raised |-> 33]
    ELSE LET rows == read_fwf(file, {"ID", "State"})
         IN  IF NotTextColumn(Column(rows, "ID")) THEN [ret |-> Unbound, raised |-> 35]
             ELSE IF NotTextColumn(Column(rows, "State"))
                  THEN [ret |-> Unbound, raised |-> 37]
             ELSE [ret |-> DataFrame({"ID", "State"},
                                     [i \in 1..Len(rows) |->
                                        [ID |-> str_strip(rows[i].ID),
                                         State |-> str_strip(rows[i].State)]]),
                   raised |-> 0]

\* What geocode((lat, lon)) does: raises, returns None, or returns a location
\* whose address has a state or has none.
NotApplied == [kind |-> "not applied", state |-> NaN]
NoCall == [kind |-> "no call", state |-> NaN]
GeocodeOutcomes ==
    {[kind |-> "raise", state |-> NaN], [kind |-> "None", state |-> NaN],
     [kind |-> "location", state |-> NaN], [kind |-> "location", state |-> Arizona]}

\* An exception leaving get_state_from_coords.
Raised == <<"raised">>

\* get_state_from_coords without its try block: an exception of geocode
\* leaves the function.
get_state_from_coords_unguarded(row, outcome) ==
    IF Truthy(row.State) THEN row.State
    ELSE IF outcome.kind = "location"
         THEN IF outcome.state = NaN THEN <<>> ELSE outcome.state
         ELSE IF outcome.kind = "raise" THEN Raised ELSE <<>>

\* lines 50-60: the try block turns an exception of geocode into "".
get_state_from_coords(row, outcome) ==
    IF Truthy(row.State) THEN row.State
    ELSE IF outcome.kind = "location"
         THEN IF outcome.state = NaN THEN <<>> ELSE outcome.state
         ELSE <<>>

\* line 63: df_stations["State"] == ""
mask_missing_state(row) == row.State = <<>>

\* state_abbr_to_full giving "" for a code the table does not hold.
state_abbr_to_full_strict(state_value) ==
    IF state_value = NaN \/ Strip(state_value, PyWhitespace) = <<>> THEN <<>>
    ELSE LET st_obj == us_states_lookup(state_value)
         IN  IF st_obj # {} THEN (CHOOSE st \in st_obj : TRUE).name ELSE <<>>

\* lines 68-73
state_abbr_to_full(state_value) ==
    IF state_value = NaN \/ Strip(state_value, PyWhitespace) = <<>> THEN <<>>
    ELSE LET st_obj == us_states_lookup(state_value)
         IN  IF st_obj # {} THEN (CHOOSE st \in st_obj : TRUE).name ELSE state_value

\* lines 87-107: the file cannot be read, or its columns are kept as they are
\* (the renamed headers are not among those of the model).
Main_load_climate_data(file) ==
    IF file.kind = "unreadable" THEN [ret |-> Unbound, raised |-> 88]
    ELSE [ret |-> DataFrame(file.columns, file.rows), raised |-> 0]

\* line 122
Main_merge(climate, stations) ==
    LET right == [i \in 1..Len(stations) |->
                     [ID |-> stations[i].ID, Geo |-> stations[i].State_Full]]
        m == merge_left(climate, right)
    IN  [i \in 1..Len(m) |->
            [STATION |-> m[i].STATION, DATE |-> m[i].DATE, ID |-> m[i].ID,
             State_Full |-> m[i].Geo]]

\* line 44: the call is not guarded; an exception ends the run.
Main_l44 ==
    /\ script = "Main.py" /\ pc = "l44"
    /\ LET r == Main_load_station_inventory(stationFile)
       IN  /\ df_stations' = r.ret
           /\ abortLine' = r.raised
           /\ pc' = IF r.raised # 0 THEN "aborted" ELSE "l63"
    /\ UNCHANGED <<script, stationFile, climateFile, df_climate, df_merged,
                   state_abbr_list, errors, geocoded, coreVars>>

\* lines 63-66: the rows of the mask get get_state_from_coords applied; an
\* exception leaving it would leave apply and end the run.
Main_l63 ==
    /\ script = "Main.py" /\ pc = "l63"
    /\ LET rows == df_stations.rows
           masked == {i \in 1..Len(rows) : mask_missing_state(rows[i])}
       IN  \E outcome \in [masked -> GeocodeOutcomes] :
             LET result == [i \in masked |-> get_state_from_coords(rows[i], outcome[i])]
             IN  /\ geocoded' =
                       [i \in 1..Len(rows) |->
                          IF i \notin masked THEN NotApplied
                          ELSE IF Truthy(rows[i].State) THEN NoCall ELSE outcome[i]]
                 /\ IF \E i \in masked : result[i] = Raised
                    THEN /\ pc' = "aborted" /\ abortLine' = 54
                         /\ df_stations' = df_stations
                    ELSE /\ pc' = "l75" /\ abortLine' = abortLine
                         /\ df_stations' =
                              [df_stations EXCEPT !.rows =
                                 [i \in 1..Len(rows) |->
                                    IF i \in masked
                                    THEN [rows[i] EXCEPT !.State = result[i]]
                                    ELSE rows[i]]]
    /\ UNCHANGED <<script, stationFile, climateFile, df_climate, df_merged,
                   state_abbr_list, errors, coreVars>>

\* line 75
Main_l75 ==
    /\ script = "Main.py" /\ pc = "l75"
    /\ LET rows == df_stations.rows
       IN  df_stations' =
             DataFrame({"ID", "State", "State_Full"},
                       [i \in 1..Len(rows) |->
                          [ID |-> rows[i].ID, State |-> rows[i].State,
                           State_Full |-> state_abbr_to_full(rows[i].State)]])
    /\ pc' = "l109"
    /\ UNCHANGED <<script, stationFile, climateFile, df_climate, df_merged,
                   state_abbr_list, errors, geocoded, abortLine, coreVars>>

\* lines 109-113: the exception is reported and df_climate is left unbound.
Main_l109 ==
    /\ script = "Main.py" /\ pc = "l109"
    /\ LET r == Main_load_climate_data(climateFile)
       IN  /\ df_climate' = r.ret
           /\ errors' = IF r.raised # 0 THEN errors \cup {"climate data"} ELSE errors
    /\ pc' = "l116"
    /\ UNCHANGED <<script, stationFile, climateFile, df_stations, df_merged,
                   state_abbr_list, geocoded, abortLine, coreVars>>

\* line 116: df_climate.head() raises NameError when df_climate is unbound.
Main_l116 ==
    /\ script = "Main.py" /\ pc = "l116"
    /\ IF df_climate = Unbound
       THEN pc' = "aborted" /\ abortLine' = 116
       ELSE pc' = "l119" /\ abortLine' = abortLine
    /\ UNCHANGED <<script, stationFile, climateFile, df_stations, df_climate, df_merged,
                   state_abbr_list, errors, geocoded, coreVars>>

\* lines 119-124
Main_l119 ==
    /\ script = "Main.py" /\ pc = "l119"
    /\ IF "STATION" \notin df_climate.columns
       THEN /\ errors' = errors \cup {"STATION column"}
            /\ df_merged' = df_merged
       ELSE /\ errors' = errors
            /\ df_merged' = DataFrame({"STATION", "DATE", "ID", "State_Full"},
                                      Main_merge(df_climate.rows, df_stations.rows))
    /\ pc' = "l134"
    /\ UNCHANGED <<script, stationFile, climateFile, df_stations, df_climate,
                   state_abbr_list, geocoded, abortLine, coreVars>>

\* line 134: df_merged.columns raises NameError when df_merged is unbound; what
\* follows is presentation.
Main_l134 ==
    /\ script = "Main.py" /\ pc = "l134"
    /\ IF df_merged = Unbound
       THEN pc' = "aborted" /\ abortLine' = 134
       ELSE pc' = "done" /\ abortLine' = abortLine
    /\ UNCHANGED <<script, stationFile, climateFile, df_stations, df_climate, df_merged,
                   state_abbr_list, errors, geocoded, coreVars>>

----------------------------------------------------------------------------
(* The Dual-Source Reconciler (spec.md 4.4) and the Region Backfill (4.6).  *)
(* A cell of a table is no row, a row with a null value, or a row with a    *)
(* value.  A reconciled value is held doubled (v2 = 2 * value) and a        *)
(* backfilled one as the fraction num / den, so that averages and shares    *)
(* stay exact.                                                              *)

NoRow == [row |-> FALSE, null |-> TRUE, v |-> 0]
NullRow == [row |-> TRUE, null |-> TRUE, v |-> 0]
Value(n) == [row |-> TRUE, null |-> FALSE, v |-> n]

Entities == {"X", "Y"}

Abs(n) == IF n < 0 THEN -n ELSE n

\* rel_diff < threshold, with avg = (v1 + v2) / 2 and rel_diff = 0 when avg = 0
Agree(v1, v2, t) ==
    IF v1 + v2 = 0 THEN 0 < t[1]
    ELSE 2 * Abs(v1 - v2) * t[2] < t[1] * (v1 + v2)

Doubled(n) == [row |-> TRUE, null |-> FALSE, v2 |-> 2 * n]
DoubledNull == [row |-> TRUE, null |-> TRUE, v2 |-> 0]
DoubledNoRow == [row |-> FALSE, null |-> TRUE, v2 |-> 0]

\* The policy keeping the first source, not the lower value, on divergence.
reconcile_pair_first_wins(c1, c2, t) ==
    IF c1.null /\ c2.null THEN DoubledNull
    ELSE IF c2.null THEN Doubled(c1.v)
    ELSE IF c1.null THEN Doubled(c2.v)
    ELSE IF Agree(c1.v, c2.v, t)
         THEN [row |-> TRUE, null |-> FALSE, v2 |-> c1.v + c2.v]
         ELSE Doubled(c1.v)

\* The resolution policy for one joined pair.
reconcile_pair(c1, c2, t) ==
    IF c1.null /\ c2.null THEN DoubledNull
    ELSE IF c2.null THEN Doubled(c1.v)
    ELSE IF c1.null THEN Doubled(c2.v)
    ELSE IF Agree(c1.v, c2.v, t)
         THEN [row |-> TRUE, null |-> FALSE, v2 |-> c1.v + c2.v]
         ELSE Doubled(Min(c1.v, c2.v))

\* The outer join on (entity, period) of two outputs for one period.
reconcile(t1, t2, t) ==
    [e \in Entities |->
        IF ~t1[e].row /\ ~t2[e].row THEN DoubledNoRow
        ELSE reconcile_pair(t1[e], t2[e], t)]

Periods == {2019, 2020}
RegionMap == [West |-> {"a", "b", "c"}]
RegionNames == DOMAIN RegionMap
Members == UNION {RegionMap[r] : r \in RegionNames}
Names == RegionNames \cup Members

RECURSIVE SumOver(_, _)
SumOver(S, f) ==
    IF S = {} THEN 0
    ELSE LET x == CHOOSE y \in S : TRUE IN f[x] + SumOver(S \ {x}, f)

Frac(n, d) == [row |-> TRUE, num |-> n, den |-> d]
FracNoRow == [row |-> FALSE, num |-> 0, den |-> 1]

MissingOf(tbl, p, r) == {m \in RegionMap[r] : ~tbl[p][m].row}
PresentOf(tbl, p, r) == {m \in RegionMap[r] : tbl[p][m].row}
PresentSum(tbl, p, r) == SumOver(PresentOf(tbl, p, r), [m \in Members |-> tbl[p][m].v])

\* The residual spread over all members of the region, not the missing ones.
backfill_share_of_members(tbl, p, r) ==
    Frac(tbl[p][r].v - PresentSum(tbl, p, r), Cardinality(RegionMap[r]))

\* The share of one missing member: residual / len(missing).
backfill_share(tbl, p, r) ==
    Frac(tbl[p][r].v - PresentSum(tbl, p, r), Cardinality(MissingOf(tbl, p, r)))

\* Fill the missing members of every region that has its aggregate row, then
\* drop the aggregate rows.
region_backfill(tbl) ==
    [p \in Periods |->
        [n \in Names |->
            IF n \in RegionNames THEN FracNoRow
            ELSE IF tbl[p][n].row THEN Frac(tbl[p][n].v, 1)
            ELSE LET owners == {r \in RegionNames : n \in RegionMap[r] /\ tbl[p][r].row}
                 IN  IF owners = {} THEN FracNoRow
                     ELSE backfill_share(tbl, p, CHOOSE r \in owners : TRUE)]]

Core_Reconcile ==
    /\ script = "core" /\ pc = "reconcile"
    /\ merged12' = reconcile(src1, src2, threshold)
    /\ merged21' = reconcile(src2, src1, threshold)
    /\ pc' = "reconciled"
    /\ UNCHANGED <<script, pipeVars, src1, src2, threshold, compiled, backfilled>>

Core_Backfill ==
    /\ script = "core" /\ pc = "backfill"
    /\ backfilled' = region_backfill(compiled)
    /\ pc' = "backfilled"
    /\ UNCHANGED <<script, pipeVars, src1, src2, threshold, merged12, merged21, compiled>>

----------------------------------------------------------------------------
(* The files the scripts may find on disk *)

SeqsUpTo(S, n) == UNION {[1..k -> S] : k \in 0..n}

SeqsFromTo(S, m, n) == UNION {[1..k -> S] : k \in m..n}

Unreadable == [kind |-> "unreadable", columns |-> {}, lines |-> <<>>, rows |-> <<>>]

StationFileOf(lines) ==
    [kind |-> "ok", columns |-> {}, lines |-> lines, rows |-> <<>>]

ClimateFileOf(columns, rows) ==
    [kind |-> "ok", columns |-> columns, lines |-> <<>>, rows |-> rows]

\* A US station, a station of another prefix, an all-digit identifier.
StationIdFields == {<<"U", "S", "7", "U">>, <<"S", "U", "7">>, <<"7", "7">>}

BlankField == <<" ", " ">>

\* The state columns 69-71: blank, a form feed, a code of the table (in lower
\* case, which the lookup accepts) and a code that is not in it.
StateFields == {BlankField, <<"\f", " ">>, <<"a", "z">>, <<"Z", "Z">>}

CodeLines == {[ID |-> id, State |-> <<>>] : id \in StationIdFields \cup {BlankField}}

MainLines == {[ID |-> id, State |-> st] : id \in StationIdFields, st \in StateFields}

CodeStationFiles ==
    {Unreadable} \cup {StationFileOf(l) : l \in SeqsUpTo(CodeLines, MaxStations)}

MainStationFiles ==
    {Unreadable} \cup {StationFileOf(l) : l \in SeqsUpTo(MainLines, MaxStations)}

\* STATION cells: a US station, a station of another prefix, no station.
StationCells == {<<"U", "S", "7", "U">>, <<"S", "U", "7">>, <<"S", "S">>}

ClimateFiles ==
    {Unreadable}
    \cup {ClimateFileOf({"DATE"}, [i \in 1..k |-> [DATE |-> i]]) : k \in 0..MaxObs}
    \cup {ClimateFileOf({"STATION", "DATE"},
                        [i \in 1..Len(c) |-> [STATION |-> c[i], DATE |-> i]]) :
            c \in SeqsUpTo(StationCells, MaxObs)}

\* Registries for the identifier scan: every identifier over U, S, 7 up to
\* MaxIdLen characters, alone or beside a US station.
ParseIds == SeqsFromTo({"U", "S", "7"}, 1, MaxIdLen)

ParseCompanion == <<"U", "S", "7", "U">>

ParseLines ==
    {<<id>> : id \in ParseIds}
    \cup {<<id, ParseCompanion>> : id \in ParseIds}
    \cup {<<ParseCompanion, id>> : id \in ParseIds}

ParseStationFiles ==
    {Unreadable}
    \cup {StationFileOf([i \in 1..Len(l) |-> [ID |-> l[i], State |-> <<>>]]) :
            l \in ParseLines}

----------------------------------------------------------------------------
(* The specifications *)

CoreIdle ==
    /\ src1 = <<>> /\ src2 = <<>> /\ threshold = <<0, 1>>
    /\ merged12 = <<>> /\ merged21 = <<>>
    /\ compiled = <<>> /\ backfilled = <<>>

PipeStart ==
    /\ df_stations = Unbound /\ df_climate = Unbound /\ df_merged = Unbound
    /\ state_abbr_list = <<>> /\ errors = {} /\ geocoded = <<>> /\ abortLine = 0

InitCode ==
    /\ script = "Code.py" /\ pc = "l46"
    /\ stationFile \in CodeStationFiles /\ climateFile \in ClimateFiles
    /\ PipeStart /\ CoreIdle

InitMain ==
    /\ script = "Main.py" /\ pc = "l44"
    /\ stationFile \in MainStationFiles /\ climateFile \in ClimateFiles
    /\ PipeStart /\ CoreIdle

Init == InitCode \/ InitMain

Next ==
    \/ Code_l46 \/ Code_l81 \/ Code_l103 \/ Code_l104 \/ Code_l106
    \/ Main_l44 \/ Main_l63 \/ Main_l75 \/ Main_l109 \/ Main_l116 \/ Main_l119
    \/ Main_l134

Spec == Init /\ [][Next]_vars

SourceCells == {NoRow, NullRow} \cup {Value(n) : n \in 0..MaxValue}

Thresholds == {<<1, 10>>, <<1, 3>>}

CompiledPeriods ==
    {[n \in Names |-> IF n \in RegionNames THEN tot[n] ELSE mem[n]] :
        tot \in [RegionNames -> {NoRow} \cup {Value(n) : n \in 0..MaxTotal}],
        mem \in [Members -> {NoRow} \cup {Value(n) : n \in 1..MaxMemberValue}]}

PipeIdle == stationFile = Unreadable /\ climateFile = Unreadable /\ PipeStart

InitCore ==
    /\ script = "core" /\ PipeIdle
    /\ \/ /\ pc = "reconcile"
          /\ src1 \in [Entities -> SourceCells] /\ src2 \in [Entities -> SourceCells]
          /\ threshold \in Thresholds
          /\ merged12 = <<>> /\ merged21 = <<>> /\ compiled = <<>> /\ backfilled = <<>>
       \/ /\ pc = "backfill"
          /\ compiled \in [Periods -> CompiledPeriods]
          /\ src1 = <<>> /\ src2 = <<>> /\ threshold = <<0, 1>>
          /\ merged12 = <<>> /\ merged21 = <<>> /\ backfilled = <<>>

NextCore == Core_Reconcile \/ Core_Backfill

SpecCore == InitCore /\ [][NextCore]_vars

InitParse ==
    /\ script = "Code.py" /\ pc = "l46"
    /\ stationFile \in ParseStationFiles /\ climateFile = Unreadable
    /\ PipeStart /\ CoreIdle

NextParse == Code_l46

SpecParse == InitParse /\ [][NextParse]_vars

----------------------------------------------------------------------------
(* Claims about Code.py and Main.py *)

ParsedIds == Column(read_fwf(stationFile, {"ID"}), "ID")

AlphaPos(s) == {p \in 3..Len(s) : s[p] \in Letters}

\* r holds the first two letters of s found from offset 2 on, in their order.
FirstTwoLettersAfter2(s, r) ==
    /\ Len(r) <= 2
    /\ Len(r) = Min(2, Cardinality(AlphaPos(s)))
    /\ \A k \in 1..Len(r) :
         /\ r[k] \in Letters
         /\ \E p \in AlphaPos(s) :
              /\ Cardinality({q \in AlphaPos(s) : q < p}) = k - 1
              /\ r[k] = s[p]

HasPrefixUS(id) == Len(id) >= 2 /\ id[1] = "U" /\ id[2] = "S"

\* C7: the table load_station_inventory of Code.py returns holds exactly the
\* parsed stations whose ID starts with "US": no row of another prefix, and
\* the US stations of the file all there, in the file's order.
C7_ExactlyUS ==
    (script = "Code.py" /\ pc # "l46" /\ df_stations.kind = "DataFrame") =>
        /\ \A i \in 1..Len(df_stations.rows) : HasPrefixUS(df_stations.rows[i].ID)
        /\ Column(df_stations.rows, "ID") = SelectSeq(ParsedIds, HasPrefixUS)

C7_Witness ==
    /\ script = "Code.py" /\ pc = "l81" /\ df_stations.kind = "DataFrame"
    /\ Len(df_stations.rows) = 1
    /\ Len(ParsedIds) = 2
    /\ ~HasPrefixUS(ParsedIds[1])

\* merged is the left-outer join of obs with right on STATION = ID.
LeftOuter(obs, right, merged) ==
    /\ \A i \in 1..Len(obs) :
         LET copies == {j \in 1..Len(merged) :
                          merged[j].DATE = obs[i].DATE /\ merged[j].STATION = obs[i].STATION}
             found == {k \in 1..Len(right) : right[k].ID = obs[i].STATION}
         IN  /\ copies # {}
             /\ Cardinality(copies) = IF found = {} THEN 1 ELSE Cardinality(found)
    /\ \A j \in 1..Len(merged) :
         LET found == {k \in 1..Len(right) : right[k].ID = merged[j].STATION}
         IN  /\ \E i \in 1..Len(obs) :
                  obs[i].DATE = merged[j].DATE /\ obs[i].STATION = merged[j].STATION
             /\ IF found = {} THEN merged[j].Geo = NaN
                ELSE \E k \in found : merged[j].Geo = right[k].Geo

CodeGeo(rows) == [i \in 1..Len(rows) |->
                    [ID |-> IF "ID" \in DOMAIN rows[i] THEN rows[i].ID ELSE NaN,
                     STATION |-> IF "STATION" \in DOMAIN rows[i] THEN rows[i].STATION ELSE NaN,
                     DATE |-> IF "DATE" \in DOMAIN rows[i] THEN rows[i].DATE ELSE 0,
                     Geo |-> rows[i].State_Abbr]]

MainGeo(rows) == [i \in 1..Len(rows) |->
                    [ID |-> rows[i].ID,
                     STATION |-> IF "STATION" \in DOMAIN rows[i] THEN rows[i].STATION ELSE NaN,
                     DATE |-> IF "DATE" \in DOMAIN rows[i] THEN rows[i].DATE ELSE 0,
                     Geo |-> rows[i].State_Full]]

\* C2: the merge of both scripts is a left-outer join on STATION = ID: every
\* observation row is in the merged table, and one whose STATION matches no
\* station record is kept, once, with a null State_Abbr / State_Full.
C2_LeftOuterJoin ==
    /\ (script = "Code.py" /\ df_merged.kind = "DataFrame") =>
          LeftOuter(df_climate.rows, CodeGeo(df_stations.rows), CodeGeo(df_merged.rows))
    /\ (script = "Main.py" /\ df_merged.kind = "DataFrame") =>
          LeftOuter(df_climate.rows, MainGeo(df_stations.rows), MainGeo(df_merged.rows))

C2_Witness ==
    /\ script = "Code.py" /\ pc = "done" /\ df_merged.kind = "DataFrame"
    /\ Len(df_stations.rows) > 0
    /\ \E j \in 1..Len(df_merged.rows) :
         /\ df_merged.rows[j].State_Abbr = NaN
         /\ df_merged.rows[j].STATION # NaN

\* C3: a source that cannot be loaded is fatal for that source only: the run
\* is never ended by an unhandled error when the station registry or the
\* observation file is unreadable.
C3_SourceFailureNotFatal ==
    (stationFile.kind = "unreadable" \/ climateFile.kind = "unreadable") =>
        pc # "aborted"

\* C4: when the station registry cannot be opened, load_station_inventory
\* fails with an error outcome and produces no station records: Code.py
\* reports the error and returns None, Main.py raises at the read and binds
\* nothing.
C4_FileAccessError ==
    stationFile.kind = "unreadable" =>
        /\ (script = "Code.py" /\ pc # "l46") =>
              /\ df_stations = None
              /\ "station inventory" \in errors
              /\ state_abbr_list = <<>>
        /\ (script = "Main.py" /\ pc # "l44") =>
              /\ pc = "aborted" /\ abortLine = 33
              /\ df_stations = Unbound

C4_Witness ==
    /\ script = "Code.py" /\ pc = "l81"
    /\ stationFile.kind = "unreadable" /\ df_stations = None

\* C5: a reverse lookup that raises or returns nothing does not end the run:
\* get_state_from_coords gives the empty state for that station, the other
\* stations are processed and the later stages run.
C5_LookupFailureTolerated ==
    (script = "Main.py" /\ pc \notin {"l44", "l63"} /\ abortLine \notin {33, 35, 37}) =>
        /\ abortLine # 54
        /\ Len(geocoded) = Len(df_stations.rows)
        /\ \A i \in 1..Len(geocoded) :
             geocoded[i].kind \in {"raise", "None"} => df_stations.rows[i].State = <<>>

C5_Witness ==
    /\ script = "Main.py" /\ pc = "done"
    /\ \E i, j \in 1..Len(geocoded) :
         /\ geocoded[i].kind = "raise"
         /\ geocoded[j].kind = "None"

IsBlank(v) == v = NaN \/ \A i \in 1..Len(v) : v[i] \in PyWhitespace

\* C6: state_abbr_to_full never fails: a code of the table gives its full
\* name, a non-empty code not in the table is returned unchanged, a blank or
\* non-string code gives the empty string.
C6_FullName ==
    (script = "Main.py" /\ "State_Full" \in df_stations.columns) =>
        /\ abortLine \notin 68..75
        /\ \A i \in 1..Len(df_stations.rows) :
             LET v == df_stations.rows[i].State
                 full == df_stations.rows[i].State_Full
                 found == IF IsBlank(v) THEN {} ELSE us_states_lookup(v)
             IN  /\ IsBlank(v) => full = <<>>
                 /\ (~IsBlank(v) /\ found # {}) => \E st \in found : full = st.name
                 /\ (~IsBlank(v) /\ found = {}) => full = v

C6_Witness ==
    /\ script = "Main.py" /\ pc = "l109"
    /\ \E i, j \in 1..Len(df_stations.rows) :
         /\ df_stations.rows[i].State = <<"a", "z">>
         /\ df_stations.rows[i].State_Full = Arizona
         /\ df_stations.rows[j].State = <<"Z", "Z">>
         /\ df_stations.rows[j].State_Full = <<"Z", "Z">>

ParsedStates == Column(read_fwf(stationFile, {"ID", "State"}), "State")

StateAbsent(field) == field = NaN \/ str_strip(field) = <<>>

\* C10: Main.py falls back to the coordinate lookup exactly for the records
\* whose encoded state field is absent: each of them has
\* get_state_from_coords applied, and each record with a state keeps it, with
\* no lookup made for it.
C10_FallbackExactlyForAbsent ==
    (script = "Main.py" /\ pc \notin {"l44", "l63", "aborted"}) =>
        \A i \in 1..Len(ParsedStates) :
            IF StateAbsent(ParsedStates[i])
            THEN geocoded[i] # NotApplied
            ELSE /\ geocoded[i] \in {NotApplied, NoCall}
                 /\ df_stations.rows[i].State = str_strip(ParsedStates[i])

----------------------------------------------------------------------------
(* Claims about the Reconciler and the Region Backfill *)

\* C8: for a pair of present values the merged value is their average when
\* |v1 - v2| / avg < threshold (rel_diff 0 when avg = 0) and their minimum
\* otherwise; with one value present it is that value; and reconcile(A, B)
\* gives the same merged value as reconcile(B, A) for every entity.
C8_ReconcilePolicySymmetric ==
    (script = "core" /\ pc = "reconciled") =>
        \A e \in Entities :
            LET a == src1[e]
                b == src2[e]
                m == merged12[e]
            IN  /\ merged12[e] = merged21[e]
                /\ (~a.null /\ ~b.null) =>
                      /\ ~m.null
                      /\ IF \/ a.v + b.v = 0
                            \/ 2 * Abs(a.v - b.v) * threshold[2] < threshold[1] * (a.v + b.v)
                         THEN m.v2 = a.v + b.v
                         ELSE /\ m.v2 <= 2 * a.v /\ m.v2 <= 2 * b.v
                              /\ m.v2 \in {2 * a.v, 2 * b.v}
                /\ (~a.null /\ b.null) => (~m.null /\ m.v2 = 2 * a.v)
                /\ (a.null /\ ~b.null) => (~m.null /\ m.v2 = 2 * b.v)

C8_Witness ==
    /\ script = "core" /\ pc = "reconciled" /\ threshold = <<1, 10>>
    /\ src1["X"] = Value(10) /\ src2["X"] = Value(11) /\ merged12["X"].v2 = 21
    /\ src1["Y"] = Value(9) /\ src2["Y"] = Value(4) /\ merged21["Y"].v2 = 8

\* C9: for every period and region whose aggregate row exists and that has a
\* missing member, each missing member receives (region_total - sum of the
\* present members) / (number of missing members), so the members sum to the
\* region total after backfill; and no row of a region name is left.
C9_BackfillConserves ==
    (script = "core" /\ pc = "backfilled") =>
        \A p \in Periods : \A r \in RegionNames :
            /\ ~backfilled[p][r].row
            /\ LET missing == {m \in RegionMap[r] : ~compiled[p][m].row}
                   present == RegionMap[r] \ missing
                   k == Cardinality(missing)
                   total == compiled[p][r].v
                   known == SumOver(present, [m \in Members |-> compiled[p][m].v])
               IN  (compiled[p][r].row /\ missing # {}) =>
                      /\ \A m \in missing :
                           /\ backfilled[p][m].row
                           /\ backfilled[p][m].num = total - known
                           /\ backfilled[p][m].den = k
                      /\ \A m \in present : backfilled[p][m] = Frac(compiled[p][m].v, 1)
                      /\ k * SumOver(present, [m \in Members |-> backfilled[p][m].num])
                           + SumOver(missing, [m \in Members |-> backfilled[p][m].num])
                         = k * total

C9_Witness ==
    /\ script = "core" /\ pc = "backfilled"
    /\ compiled[2019]["West"] = Value(2)
    /\ compiled[2019]["a"] = Value(1)
    /\ ~compiled[2019]["b"].row /\ ~compiled[2019]["c"].row
    /\ backfilled[2019]["b"] = Frac(1, 2)
    /\ ~compiled[2020]["West"].row /\ ~backfilled[2020]["b"].row

====
